---- MODULE Spec2Model ----
(***************************************************************************)
(* Marketplace backend (FastAPI): token service (app/jwt_manager.py),      *)
(* authorization gate (app/dependencies.py) and the request handlers of    *)
(* app/main.py over the relational store.                                  *)
(*                                                                         *)
(* Conventions.  A Python Optional is a record: None is [some |-> FALSE],  *)
(* a value v is [some |-> TRUE, val |-> v].  A str that the code parses    *)
(* (the "sub" claim) is a sequence of one-character strings; other strs    *)
(* are TLA+ strings.  The clock counts minutes.                            *)
(***************************************************************************)
EXTENDS Integers, Sequences, FiniteSets, TLC

VARIABLES
    users,      \* rows of table users
    sellers,    \* rows of table sellers
    products,   \* rows of table products
    orders,     \* rows of table orders
    tokens,     \* access tokens handed out by /login and still held by clients
    now,        \* datetime.utcnow(), in minutes
    resp,       \* the response to the request handled last
    call,       \* the call of a function of the token service made last
    sessions    \* the register requests in flight, each with its own session

vars == <<users, sellers, products, orders, tokens, now, resp, call, sessions>>

----------------------------------------------------------------------------
(* Python values *)

None == [some |-> FALSE]

Some(v) == [some |-> TRUE, val |-> v]

Digits == <<"0", "1", "2", "3", "4", "5", "6", "7", "8", "9">>

IsDigit(c) == \E i \in 1..10 : Digits[i] = c

DigitVal(c) == (CHOOSE i \in 1..10 : Digits[i] = c) - 1

\* str(n) of a Python int
RECURSIVE NatToStr(_)
NatToStr(n) ==
    IF n < 10 THEN <<Digits[n + 1]>>
    ELSE Append(NatToStr(n \div 10), Digits[(n % 10) + 1])

PyStr(n) == IF n < 0 THEN <<"-">> \o NatToStr(0 - n) ELSE NatToStr(n)

RECURSIVE DigitsToNat(_)
DigitsToNat(s) ==
    IF s = <<>> THEN 0
    ELSE DigitsToNat(SubSeq(s, 1, Len(s) - 1)) * 10 + DigitVal(s[Len(s)])

AllDigits(s) == Len(s) > 0 /\ \A i \in 1..Len(s) : IsDigit(s[i])

\* int(s) of a Python str: an optional sign and decimal digits; anything
\* else raises ValueError, which is None here.
PyInt(s) ==
    IF AllDigits(s) THEN Some(DigitsToNat(s))
    ELSE IF Len(s) > 1 /\ s[1] \in {"-", "+"} /\ AllDigits(Tail(s))
         THEN Some(IF s[1] = "-" THEN 0 - DigitsToNat(Tail(s)) ELSE DigitsToNat(Tail(s)))
         ELSE None

----------------------------------------------------------------------------
(* app/jwt_manager.py *)

SECRET_KEY == "fallback-secret-key-change-me"

ACCESS_TOKEN_EXPIRE_MINUTES == 30

\* HMAC-SHA256 of a payload under a key: equal exactly for equal key and
\* payload.
Sign(key, payload) == [key |-> key, msg |-> payload]

\* jwt.encode(to_encode, key): the claims and their signature.
JwtEncode(payload, key) == [payload |-> payload, sig |-> Sign(key, payload)]

\* An issue that writes exp into the caller's dict.
CreateTokenAliasing(data, expires_delta, t) ==
    LET expire == IF expires_delta.some /\ expires_delta.val # 0
                  THEN t + expires_delta.val
                  ELSE t + ACCESS_TOKEN_EXPIRE_MINUTES
        to_encode == [k \in DOMAIN data \cup {"exp"} |->
                         IF k = "exp" THEN expire ELSE data[k]]
    IN  [token |-> JwtEncode(to_encode, SECRET_KEY), data |-> to_encode]

\* create_access_token(data, expires_delta) called at time t.  The result is
\* the token and the caller's dict as the call leaves it.
create_access_token(data, expires_delta, t) ==
    LET expire == IF expires_delta.some /\ expires_delta.val # 0
                  THEN t + expires_delta.val
                  ELSE t + ACCESS_TOKEN_EXPIRE_MINUTES
        to_encode == [k \in DOMAIN data \cup {"exp"} |->
                         IF k = "exp" THEN expire ELSE data[k]]
    IN  [token |-> JwtEncode(to_encode, SECRET_KEY), data |-> data]

\* jwt.decode(token, key): raises JWTError (FALSE here) on a bad signature
\* and on exp < now.
JwtDecodes(token, key, t) ==
    /\ token.sig = Sign(key, token.payload)
    /\ ("exp" \in DOMAIN token.payload => ~(token.payload["exp"] < t))

\* A verification that checks the signature and not the expiry.
VerifyNoExpiry(token, t) ==
    IF token.sig = Sign(SECRET_KEY, token.payload) THEN Some(token.payload) ELSE None

verify_token(token, t) ==
    IF JwtDecodes(token, SECRET_KEY, t) THEN Some(token.payload) ELSE None

\* The subject read from a token that was not verified.
GetUserIdUnverified(token, t) ==
    IF "sub" \in DOMAIN token.payload /\ token.payload["sub"] # <<>>
    THEN PyInt(token.payload["sub"])
    ELSE None

get_user_id_from_token(token, t) ==
    LET payload == verify_token(token, t)
    IN  IF ~payload.some THEN None
        ELSE IF "sub" \in DOMAIN payload.val /\ payload.val["sub"] # <<>>
             THEN PyInt(payload.val["sub"])
             ELSE None

----------------------------------------------------------------------------
(* app/security.py *)

\* A password is the sequence of its characters.
admin123 == <<"a", "d", "m", "i", "n", "1", "2", "3">>

pw123456 == <<"p", "w", "1", "2", "3", "4", "5", "6">>

\* The UTF-8 bytes of a character: one byte for an ASCII character, two
\* for e-acute (C3 A9) and e-grave (C3 A8).
Utf8(c) ==
    IF c = "e-acute" THEN <<"C3", "A9">>
    ELSE IF c = "e-grave" THEN <<"C3", "A8">>
    ELSE <<c>>

\* password.encode('utf-8')
RECURSIVE encode(_)
encode(password) ==
    IF password = <<>> THEN <<>>
    ELSE Utf8(Head(password)) \o encode(Tail(password))

\* bcrypt computes with the first 72 bytes of the secret it is given.
BcryptMaxBytes == 72

BcryptKey(bytes) ==
    IF Len(bytes) > BcryptMaxBytes THEN SubSeq(bytes, 1, BcryptMaxBytes) ELSE bytes

\* pwd_context.hash(secret): the bcrypt hash of the bytes.  The hash stands
\* for its salt and digest by the key they were computed from.
pwd_context_hash(secret) == [scheme |-> "bcrypt", secret |-> BcryptKey(secret)]

\* pwd_context.verify(secret, hash): the context identifies the scheme of
\* the hash and has it verify the encoded secret; a string that is no hash
\* of its scheme makes it raise (UnknownHashError, MalformedHashError).
pwd_context_verify(secret, hash) ==
    IF hash.scheme # "bcrypt" THEN [raised |-> "UnknownHashError"]
    ELSE IF "secret" \notin DOMAIN hash THEN [raised |-> "MalformedHashError"]
    ELSE [value |-> (hash.secret = BcryptKey(encode(secret)))]

GetPasswordHashShorter(password) ==
    LET password_bytes == encode(password)
    IN  pwd_context_hash(IF Len(password_bytes) > 71
                         THEN SubSeq(password_bytes, 1, 71)
                         ELSE password_bytes)

\* get_password_hash(password)
get_password_hash(password) ==
    LET password_bytes == encode(password)
    IN  pwd_context_hash(IF Len(password_bytes) > 72
                         THEN SubSeq(password_bytes, 1, 72)
                         ELSE password_bytes)

\* verify_password(plain_password, hashed_password): the value returned, or
\* the exception that passes through.
verify_password(plain_password, hashed_password) ==
    pwd_context_verify(plain_password, hashed_password)

----------------------------------------------------------------------------
(* The store: tables are sets of rows. *)

MaxOf(S) == CHOOSE m \in S : \A x \in S : x <= m

\* The integer primary key the store gives a new row.
NextId(rows) == IF rows = {} THEN 1 ELSE MaxOf({r.id : r \in rows}) + 1

\* Table users: username and email are unique.
UsersUnique(rows) ==
    \A a, b \in rows :
        (a.username = b.username \/ a.email = b.email \/ a.id = b.id) => a = b

\* An insert into a table users that has no unique constraint.
InsertUserUnchecked(rows, username, email, hashed_password, is_admin) ==
    LET row == [id |-> NextId(rows), username |-> username, email |-> email,
                hashed_password |-> hashed_password, is_admin |-> is_admin]
    IN  [ok |-> TRUE, rows |-> rows \cup {row}, row |-> row]

\* session.add(User(...)); commit(): the new table, or IntegrityError when
\* the row breaks a constraint of the table.
InsertUser(rows, username, email, hashed_password, is_admin) ==
    LET row == [id |-> NextId(rows), username |-> username, email |-> email,
                hashed_password |-> hashed_password, is_admin |-> is_admin]
    IN  IF UsersUnique(rows \cup {row})
        THEN [ok |-> TRUE, rows |-> rows \cup {row}, row |-> row]
        ELSE [ok |-> FALSE, rows |-> rows]

\* result.scalar_one_or_none() over the rows a select matched
ManyRows == [some |-> FALSE, raised |-> "MultipleResultsFound"]

Raised(r) == "raised" \in DOMAIN r

scalar_one_or_none(matched) ==
    IF matched = {} THEN None
    ELSE IF Cardinality(matched) = 1 THEN Some(CHOOSE r \in matched : TRUE)
    ELSE ManyRows

----------------------------------------------------------------------------
(* app/dependencies.py *)

RequireUserLive(token) ==
    LET user_id == get_user_id_from_token(token, now)
    IN  IF ~user_id.some THEN [status |-> 401]
        ELSE IF ~(\E u \in users : u.id = user_id.val) THEN [status |-> 404]
        ELSE [status |-> 200, value |-> user_id.val]

\* Depends(get_current_user): 200 and the user id, or the HTTPException.
get_current_user(token) ==
    LET user_id == get_user_id_from_token(token, now)
    IN  IF ~user_id.some THEN [status |-> 401]
        ELSE [status |-> 200, value |-> user_id.val]

AdminDataOf(user) ==
    [user_id |-> user.id, username |-> user.username, is_admin |-> user.is_admin]

\* A gate that trusts the is_admin claim of the token.
RequireAdminByClaim(token) ==
    LET user_id == get_user_id_from_token(token, now)
        user == IF user_id.some
                THEN scalar_one_or_none({u \in users : u.id = user_id.val})
                ELSE None
    IN  IF ~user_id.some THEN [status |-> 401]
        ELSE IF ~user.some THEN [status |-> 404]
        ELSE IF ~token.payload["is_admin"] THEN [status |-> 403]
        ELSE [status |-> 200, value |-> AdminDataOf(user.val)]

\* A gate that wants the is_admin claim of the token and the live flag.
RequireAdminClaimAndFlag(token) ==
    LET user_id == get_user_id_from_token(token, now)
        user == IF user_id.some
                THEN scalar_one_or_none({u \in users : u.id = user_id.val})
                ELSE None
    IN  IF ~user_id.some THEN [status |-> 401]
        ELSE IF ~user.some THEN [status |-> 404]
        ELSE IF ~(user.val.is_admin /\ token.payload["is_admin"]) THEN [status |-> 403]
        ELSE [status |-> 200, value |-> AdminDataOf(user.val)]

\* A gate that looks at the admin flag before it looks for the user.
RequireAdminFlagFirst(token) ==
    LET user_id == get_user_id_from_token(token, now)
        user == IF user_id.some
                THEN scalar_one_or_none({u \in users : u.id = user_id.val})
                ELSE None
    IN  IF ~user_id.some THEN [status |-> 401]
        ELSE IF ~(user.some /\ user.val.is_admin) THEN [status |-> 403]
        ELSE [status |-> 200, value |-> AdminDataOf(user.val)]

\* Depends(get_current_admin): 200 and the admin's data, or the HTTPException.
get_current_admin(token) ==
    LET user_id == get_user_id_from_token(token, now)
        user == IF user_id.some
                THEN scalar_one_or_none({u \in users : u.id = user_id.val})
                ELSE None
    IN  IF ~user_id.some THEN [status |-> 401]
        ELSE IF ~user.some THEN [status |-> 404]
        ELSE IF ~user.val.is_admin THEN [status |-> 403]
        ELSE [status |-> 200, value |-> AdminDataOf(user.val)]

----------------------------------------------------------------------------
(* app/main.py: lifespan *)

\* The administrator block of lifespan.  raised: the statement that raised,
\* which ends the startup with the store as it was.
LifespanAdmin(rows) ==
    LET admin_user == scalar_one_or_none({u \in rows : u.username = "admin"})
        ins == InsertUser(rows, "admin", "admin@example.com",
                          get_password_hash(admin123), TRUE)
    IN  IF Raised(admin_user) THEN [ok |-> FALSE, rows |-> rows]
        ELSE IF ~admin_user.some THEN [ok |-> ins.ok, rows |-> ins.rows]
        ELSE IF ~admin_user.val.is_admin
             THEN [ok |-> TRUE,
                   rows |-> (rows \ {admin_user.val})
                            \cup {[admin_user.val EXCEPT !.is_admin = TRUE]}]
             ELSE [ok |-> TRUE, rows |-> rows]

\* commission_percent is kept in tenths of a percent, prices in hundredths.
default_sellers ==
    << [name |-> "ElectroTech", commission_percent |-> 50],
       [name |-> "FashionStyle", commission_percent |-> 75],
       [name |-> "HomeGoods", commission_percent |-> 40],
       [name |-> "SportLife", commission_percent |-> 60],
       [name |-> "BookWorld", commission_percent |-> 35] >>

\* The sellers block of lifespan, from default_sellers[i] on.  The session
\* autoflushes the sellers added so far before each select.
RECURSIVE LifespanSellersFrom(_, _)
LifespanSellersFrom(rows, i) ==
    IF i > Len(default_sellers) THEN [ok |-> TRUE, rows |-> rows]
    ELSE LET seller_data == default_sellers[i]
             existing_seller == scalar_one_or_none(
                                    {r \in rows : r.name = seller_data.name})
         IN  IF Raised(existing_seller) THEN [ok |-> FALSE, rows |-> rows]
             ELSE IF ~existing_seller.some
                  THEN LifespanSellersFrom(
                           rows \cup {[id |-> NextId(rows), name |-> seller_data.name,
                                       commission_percent |-> seller_data.commission_percent]},
                           i + 1)
                  ELSE LifespanSellersFrom(rows, i + 1)

test_products(first_seller_id) ==
    << [name |-> "Samsung Galaxy", price |-> 2999999, seller_id |-> first_seller_id],
       [name |-> "Lenovo IdeaPad", price |-> 5499999, seller_id |-> first_seller_id],
       [name |-> "Sony WH-1000XM4", price |-> 1999999, seller_id |-> first_seller_id] >>

RECURSIVE AddProducts(_, _, _)
AddProducts(rows, data, i) ==
    IF i > Len(data) THEN rows
    ELSE AddProducts(rows \cup {[id |-> NextId(rows), name |-> Some(data[i].name),
                                 price |-> Some(data[i].price),
                                 seller_id |-> Some(data[i].seller_id)]},
                     data, i + 1)

\* The products block of lifespan.  select(Seller.id).limit(1) gives the
\* lowest seller id.
LifespanProducts(prows, srows) ==
    IF prows # {} \/ srows = {} THEN prows
    ELSE LET first_seller_id == CHOOSE m \in {r.id : r \in srows} :
                                    \A r \in srows : m <= r.id
         IN  IF first_seller_id # 0
             THEN AddProducts(prows, test_products(first_seller_id), 1)
             ELSE prows

\* lifespan(app) up to its yield, on the store d = <<users, sellers,
\* products, orders>>: the store it leaves.  Each block commits on its own,
\* so a block that raises keeps what the blocks before it committed.
lifespan(d) ==
    LET a == LifespanAdmin(d[1])
        s == LifespanSellersFrom(d[2], 1)
    IN  IF ~a.ok THEN <<a.rows, d[2], d[3], d[4]>>
        ELSE IF ~s.ok THEN <<a.rows, d[2], d[3], d[4]>>
        ELSE <<a.rows, s.rows, LifespanProducts(d[3], s.rows), d[4]>>

EmptyStore == <<{}, {}, {}, {}>>

----------------------------------------------------------------------------
(* Requests and responses *)

MaxUserId == 2      \* no user is given an id above this

MaxTokens == 2      \* tokens the clients hold

MaxTime == 31       \* the clock stops here

Usernames == {"admin", "alice"}

Emails == {"admin@example.com", "alice@x.com"}

Passwords == {admin123, pw123456}

\* The clock is observed at these distances: a token's lifetime, and the
\* minute after it.
ClockSteps == {ACCESS_TOKEN_EXPIRE_MINUTES, ACCESS_TOKEN_EXPIRE_MINUTES + 1}

\* The operator edits the accounts that registered, not the bootstrap one.
OperatorEdits == 2..MaxUserId

NoGate == [status |-> 0]

\* op: the handler; token: the bearer token of the request; gate: what its
\* dependency returned or raised; status: the HTTP status; body: the value
\* the handler returned; req: the parameters and body of the request that
\* the body of a shop handler was run with.
Response(op, token, gate, status, body) ==
    [op |-> op, token |-> token, gate |-> gate, status |-> status, body |-> body,
     req |-> None]

NoResponse == Response("none", None, NoGate, 0, None)

NoCall == [fn |-> "none"]

\* What a client without the secret can build from a token it holds: the
\* claims with is_admin set, under the old signature or signed with a key
\* of its own, and the claims as they are signed with a key of its own.
ForgedFrom(tok) ==
    LET claims == [tok.payload EXCEPT !["is_admin"] = TRUE]
    IN  {[payload |-> claims, sig |-> tok.sig], JwtEncode(claims, "attacker-key"),
         JwtEncode(tok.payload, "attacker-key")}

\* The bearer tokens a request can carry.
Presentable == tokens \cup UNION {ForgedFrom(tok) : tok \in tokens}

----------------------------------------------------------------------------
(* app/main.py: /register, /login, /me *)

RegisterNoUsernameCheck(rows, username, email, password) ==
    LET existing_user_email == scalar_one_or_none({u \in rows : u.email = email})
        ins == InsertUser(rows, username, email, get_password_hash(password), FALSE)
    IN  IF Raised(existing_user_email) THEN [status |-> 500, rows |-> rows]
        ELSE IF existing_user_email.some THEN [status |-> 400, rows |-> rows]
        ELSE IF ~ins.ok THEN [status |-> 500, rows |-> rows]
        ELSE [status |-> 201, rows |-> ins.rows, row |-> ins.row]

RegisterAdminByName(rows, username, email, password) ==
    LET existing_user_email == scalar_one_or_none({u \in rows : u.email = email})
        existing_user_username ==
            scalar_one_or_none({u \in rows : u.username = username})
        ins == InsertUser(rows, username, email, get_password_hash(password),
                          username = "alice")
    IN  IF Raised(existing_user_email) THEN [status |-> 500, rows |-> rows]
        ELSE IF existing_user_email.some THEN [status |-> 400, rows |-> rows]
        ELSE IF Raised(existing_user_username) THEN [status |-> 500, rows |-> rows]
        ELSE IF existing_user_username.some THEN [status |-> 400, rows |-> rows]
        ELSE IF ~ins.ok THEN [status |-> 500, rows |-> rows]
        ELSE [status |-> 201, rows |-> ins.rows, row |-> ins.row]

\* register(user_data, db) on the users table rows: the status and the
\* table it leaves.
register(rows, username, email, password) ==
    LET existing_user_email == scalar_one_or_none({u \in rows : u.email = email})
        existing_user_username ==
            scalar_one_or_none({u \in rows : u.username = username})
        ins == InsertUser(rows, username, email, get_password_hash(password), FALSE)
    IN  IF Raised(existing_user_email) THEN [status |-> 500, rows |-> rows]
        ELSE IF existing_user_email.some THEN [status |-> 400, rows |-> rows]
        ELSE IF Raised(existing_user_username) THEN [status |-> 500, rows |-> rows]
        ELSE IF existing_user_username.some THEN [status |-> 400, rows |-> rows]
        ELSE IF ~ins.ok THEN [status |-> 500, rows |-> rows]
        ELSE [status |-> 201, rows |-> ins.rows, row |-> ins.row]

Register(username, email, password) ==
    LET r == register(users, username, email, password)
    IN  /\ r.status = 201 => NextId(users) <= MaxUserId
        /\ users' = r.rows
        /\ resp' = Response("register", None, NoGate, r.status,
                            IF r.status = 201 THEN Some(r.row) ELSE None)
        /\ UNCHANGED <<sellers, products, orders, tokens, now, call, sessions>>

LoginNoPasswordCheck(rows, email, password, t) ==
    LET user == scalar_one_or_none({u \in rows : u.email = email})
    IN  IF Raised(user) THEN [status |-> 500]
        ELSE IF ~user.some THEN [status |-> 401]
        ELSE LET token_data == [sub |-> PyStr(user.val.id),
                                username |-> user.val.username,
                                email |-> user.val.email,
                                is_admin |-> user.val.is_admin]
             IN  [status |-> 200,
                  access_token |-> create_access_token(token_data, None, t).token]

\* login(login_data, db): the status and, on success, the token.
login(rows, email, password, t) ==
    LET user == scalar_one_or_none({u \in rows : u.email = email})
    IN  IF Raised(user) THEN [status |-> 500]
        ELSE IF ~user.some THEN [status |-> 401]
        ELSE IF Raised(verify_password(password, user.val.hashed_password))
             THEN [status |-> 500]
        ELSE IF ~verify_password(password, user.val.hashed_password).value
             THEN [status |-> 401]
             ELSE LET token_data == [sub |-> PyStr(user.val.id),
                                     username |-> user.val.username,
                                     email |-> user.val.email,
                                     is_admin |-> user.val.is_admin]
                  IN  [status |-> 200,
                       access_token |-> create_access_token(token_data, None, t).token]

Login(email, password) ==
    LET r == login(users, email, password, now)
    IN  /\ r.status = 200 => Cardinality(tokens \cup {r.access_token}) <= MaxTokens
        /\ tokens' = IF r.status = 200 THEN tokens \cup {r.access_token} ELSE tokens
        /\ resp' = Response("login", None, NoGate, r.status,
                            IF r.status = 200 THEN Some(r.access_token) ELSE None)
        /\ UNCHANGED <<users, sellers, products, orders, now, call, sessions>>

\* get_current_user_info, GET /me
Me(token) ==
    LET gate == get_current_user(token)
        user == IF gate.status = 200
                THEN scalar_one_or_none({u \in users : u.id = gate.value})
                ELSE None
    IN  /\ resp' = IF gate.status # 200
                   THEN Response("me", Some(token), gate, gate.status, None)
                   ELSE IF ~user.some
                        THEN Response("me", Some(token), gate, 404, None)
                        ELSE Response("me", Some(token), gate, 200, user)
        /\ UNCHANGED <<users, sellers, products, orders, tokens, now, call, sessions>>

\* get_orders, GET /orders: an endpoint behind Depends(get_current_admin)
GetOrders(token) ==
    LET gate == get_current_admin(token)
    IN  /\ resp' = IF gate.status # 200
                   THEN Response("get_orders", Some(token), gate, gate.status, None)
                   ELSE Response("get_orders", Some(token), gate, 200, Some(orders))
        /\ UNCHANGED <<users, sellers, products, orders, tokens, now, call, sessions>>

----------------------------------------------------------------------------
(* The environment: the clock, and the operator who edits the store. *)

Tick ==
    /\ \E d \in ClockSteps : now + d <= MaxTime /\ now' = now + d
    /\ resp' = NoResponse
    /\ UNCHANGED <<users, sellers, products, orders, tokens, call, sessions>>

\* UPDATE users SET is_admin = flag WHERE id = user_id, issued on the store
SetAdminFlag(user_id, flag) ==
    /\ \E u \in users : u.id = user_id /\ u.is_admin # flag
    /\ users' = {IF u.id = user_id THEN [u EXCEPT !.is_admin = flag] ELSE u : u \in users}
    /\ resp' = NoResponse
    /\ UNCHANGED <<sellers, products, orders, tokens, now, call, sessions>>

\* DELETE FROM users WHERE id = user_id, issued on the store
DeleteUser(user_id) ==
    /\ \E u \in users : u.id = user_id
    /\ users' = {u \in users : u.id # user_id}
    /\ resp' = NoResponse
    /\ UNCHANGED <<sellers, products, orders, tokens, now, call, sessions>>

----------------------------------------------------------------------------
(* The service: the store as the first startup leaves it, then requests.   *)

Init ==
    /\ users = lifespan(EmptyStore)[1]
    /\ sellers = lifespan(EmptyStore)[2]
    /\ products = lifespan(EmptyStore)[3]
    /\ orders = lifespan(EmptyStore)[4]
    /\ tokens = {}
    /\ now = 0
    /\ resp = NoResponse
    /\ call = NoCall
    /\ sessions = {}

Next ==
    \/ \E u \in Usernames, e \in Emails : Register(u, e, pw123456)
    \/ \E e \in Emails, p \in Passwords : Login(e, p)
    \/ \E tok \in Presentable : Me(tok)
    \/ \E tok \in Presentable : GetOrders(tok)
    \/ Tick
    \/ \E i \in OperatorEdits, f \in BOOLEAN : SetAdminFlag(i, f)
    \/ \E i \in OperatorEdits : DeleteUser(i)

Spec == Init /\ [][Next]_vars

----------------------------------------------------------------------------
(* Properties of the authorization gate *)

\* The rows of table users that the subject of a token names.
SubjectRows(tok) ==
    IF "sub" \in DOMAIN tok.payload /\ PyInt(tok.payload["sub"]).some
    THEN {u \in users : u.id = PyInt(tok.payload["sub"]).val}
    ELSE {}

Expired(tok) == tok.payload["exp"] < now

\* A held token that says is_admin although the account it names has lost
\* the flag.
Demoted(tok) ==
    /\ tok.payload["is_admin"]
    /\ \E u \in SubjectRows(tok) : ~u.is_admin

\* C1 as stated: once the account of a token issued to an admin has lost
\* the admin flag, the admin gate answers 403 to every call with that token
\* and the handler behind it returns nothing.
C1_DemotionAlways403 ==
    /\ \A tok \in tokens : Demoted(tok) => get_current_admin(tok).status = 403
    /\ (resp.op = "get_orders" /\ resp.token.val \in tokens /\ Demoted(resp.token.val))
           => (resp.status = 403 /\ ~resp.body.some)

\* C1 amended: once the account of a token issued to an admin has lost the
\* admin flag, the admin gate fails every call with that token, with 403
\* while the token is unexpired and with 401 once it has expired, and the
\* handler behind it returns nothing.
C1_DemotionHonoured ==
    /\ \A tok \in tokens :
           Demoted(tok) =>
               get_current_admin(tok).status = (IF Expired(tok) THEN 401 ELSE 403)
    /\ (resp.op = "get_orders" /\ resp.token.val \in tokens /\ Demoted(resp.token.val))
           => /\ resp.status = (IF Expired(resp.token.val) THEN 401 ELSE 403)
              /\ resp.gate.status = resp.status
              /\ ~resp.body.some

\* An admin-only request made with an unexpired token of a demoted account
\* was refused with 403.
C1_Witness ==
    /\ resp.op = "get_orders"
    /\ resp.token.val \in tokens
    /\ Demoted(resp.token.val)
    /\ ~Expired(resp.token.val)
    /\ resp.status = 403

\* The token tok as /login would have issued it with the other value of the
\* is_admin claim.
WithClaimFlipped(tok) ==
    JwtEncode([tok.payload EXCEPT !["is_admin"] = ~tok.payload["is_admin"]], SECRET_KEY)

\* C2: an unexpired token of the server passes the admin gate whenever the
\* account it names has the admin flag in the store, whatever its is_admin
\* claim says, and the gate's answer is the same for the token with the
\* claim flipped.
C2_PromotionHonoured ==
    /\ \A tok \in tokens :
           /\ (~Expired(tok) /\ \E u \in SubjectRows(tok) : u.is_admin)
                  => get_current_admin(tok).status = 200
           /\ get_current_admin(tok).status
                  = get_current_admin(WithClaimFlipped(tok)).status
    /\ (/\ resp.op = "get_orders"
        /\ resp.token.val \in tokens
        /\ ~Expired(resp.token.val)
        /\ \E u \in SubjectRows(resp.token.val) : u.is_admin)
           => (resp.status = 200 /\ resp.body.some)

\* An admin-only request made with a token whose is_admin claim is false
\* was served.
C2_Witness ==
    /\ resp.op = "get_orders"
    /\ resp.token.val \in tokens
    /\ ~resp.token.val.payload["is_admin"]
    /\ resp.status = 200
    /\ resp.body.some

\* The outcome the four ordered cases of the admin gate give for a token.
FourOutcomes(tok) ==
    LET user_id == get_user_id_from_token(tok, now)
    IN  IF ~user_id.some THEN [status |-> 401]
        ELSE IF ~(\E u \in users : u.id = user_id.val) THEN [status |-> 404]
        ELSE LET live == CHOOSE u \in users : u.id = user_id.val
             IN  IF ~live.is_admin THEN [status |-> 403]
                 ELSE [status |-> 200,
                       value |-> [user_id |-> live.id, username |-> live.username,
                                  is_admin |-> TRUE]]

\* C3: the admin gate answers 401 when the token yields no user id, else
\* 404 when the store has no user of that id, else 403 when the live record
\* is no admin, else succeeds with the live record's id and username and
\* is_admin true; a request refused by the gate carries the gate's status.
C3_FourOutcomes ==
    /\ \A tok \in Presentable : get_current_admin(tok) = FourOutcomes(tok)
    /\ resp.op = "get_orders"
           => /\ resp.gate = FourOutcomes(resp.token.val)
              /\ (resp.gate.status # 200 => resp.status = resp.gate.status)

\* The admin gate answered not-found: the token is good and its user gone.
C3_Witness ==
    /\ resp.op = "get_orders"
    /\ resp.gate.status = 404
    /\ get_user_id_from_token(resp.token.val, now).some

\* C7: the user gate returns the subject id of the token when the token
\* yields one and 401 otherwise, whether or not the store still has that
\* user.
C7_RequireUser ==
    /\ \A tok \in Presentable :
           LET user_id == get_user_id_from_token(tok, now)
           IN  get_current_user(tok) =
                   (IF user_id.some THEN [status |-> 200, value |-> user_id.val]
                    ELSE [status |-> 401])
    /\ resp.op = "me"
           => LET user_id == get_user_id_from_token(resp.token.val, now)
              IN  /\ user_id.some
                       => resp.gate = [status |-> 200, value |-> user_id.val]
                  /\ ~user_id.some
                       => (resp.gate = [status |-> 401] /\ resp.status = 401)

\* GET /me passed the user gate with the token of a user the store no
\* longer has, and the handler then answered not-found.
C7_Witness ==
    /\ resp.op = "me"
    /\ resp.gate.status = 200
    /\ SubjectRows(resp.token.val) = {}
    /\ resp.status = 404

\* C8: a register request naming an email or a username that a user already
\* has is refused with 400 and leaves table users as it was; any other
\* register request adds exactly one user, with that username and email.
C8_RegisterRejectsDuplicates ==
    [][\A un \in Usernames, e \in Emails :
          Register(un, e, pw123456) =>
              IF \E u \in users : u.email = e \/ u.username = un
              THEN users' = users /\ resp'.status = 400
              ELSE /\ resp'.status = 201
                   /\ users \subseteq users'
                   /\ Cardinality(users' \ users) = 1
                   /\ \A u \in users' \ users : u.username = un /\ u.email = e]_vars

\* A register request was refused as a duplicate while the store holds a
\* user that registered.
C8_Witness ==
    /\ resp.op = "register"
    /\ resp.status = 400
    /\ \E u \in users : u.username = "alice"

----------------------------------------------------------------------------
(* The token service on its own: JWTManager called with claim sets, ttls   *)
(* and tokens of every shape, at several clock times.                      *)

Subjects ==
    {<<>>, <<"0">>, <<"2">>, <<"1", "2">>, <<"0", "7">>, <<"-", "7">>, <<"a">>, <<"1", "a">>}

ClaimSets ==
    {[sub |-> s, username |-> "alice", email |-> "alice@x.com", is_admin |-> a] :
        s \in Subjects, a \in BOOLEAN}

\* Dicts create_access_token is also given: a claim set without its subject.
Dicts == ClaimSets \cup {[username |-> "alice", email |-> "alice@x.com", is_admin |-> FALSE]}

\* expires_delta, in minutes: absent, zero, short, already over.
Deltas == {None, Some(0), Some(1), Some(0 - 1)}

CallCreate(data, expires_delta) ==
    LET r == create_access_token(data, expires_delta, now)
    IN  /\ call' = [fn |-> "create_access_token", data |-> data,
                    expires_delta |-> expires_delta, at |-> now,
                    out |-> r.token, data_after |-> r.data]
        /\ tokens' = {r.token}
        /\ UNCHANGED <<users, sellers, products, orders, now, resp, sessions>>

CallVerify(token) ==
    /\ call' = [fn |-> "verify_token", token |-> token, at |-> now,
                out |-> verify_token(token, now)]
    /\ UNCHANGED <<users, sellers, products, orders, tokens, now, resp, sessions>>

CallGetUserId(token) ==
    /\ call' = [fn |-> "get_user_id_from_token", token |-> token, at |-> now,
                out |-> get_user_id_from_token(token, now)]
    /\ UNCHANGED <<users, sellers, products, orders, tokens, now, resp, sessions>>

NextJwt ==
    \/ \E d \in Dicts, e \in Deltas : CallCreate(d, e)
    \/ \E tok \in Presentable : CallVerify(tok)
    \/ \E tok \in Presentable : CallGetUserId(tok)
    \/ Tick

SpecJwt == Init /\ [][NextJwt]_vars

\* The signature of a token is the server's over the claims it carries.
ServerSigned(tok) == tok.sig.key = SECRET_KEY /\ tok.sig.msg = tok.payload

\* C4: verify_token returns the claims of a token exactly when the token's
\* signature is the server's over those claims and the clock is not past
\* its exp, and None in every other case: for a token signed with another
\* key, and for an expired token whatever its signature.
C4_VerifyIffSignedAndUnexpired ==
    call.fn = "verify_token" =>
        LET tok == call.token
        IN  /\ call.out.some <=> (ServerSigned(tok) /\ tok.payload["exp"] >= call.at)
            /\ call.out.some => call.out.val = tok.payload
            /\ tok.sig.key # SECRET_KEY => call.out = None
            /\ tok.payload["exp"] < call.at => call.out = None
            /\ call.out.some => tok \in tokens

\* verify_token refused an expired token that the server had signed.
C4_Witness ==
    /\ call.fn = "verify_token"
    /\ ServerSigned(call.token)
    /\ call.token.payload["exp"] < call.at
    /\ call.out = None

\* C5: at every clock time before the exp of the token create_access_token
\* made from a claim set, verify_token returns that claim set and exp, each
\* claim as it was given and no other key; and the call leaves the caller's
\* dict as it was.
C5_RoundTrip ==
    (call.fn = "create_access_token" /\ call.data \in ClaimSets) =>
        /\ call.data_after = call.data
        /\ \A t \in 0..(MaxTime + ACCESS_TOKEN_EXPIRE_MINUTES) :
               t < call.out.payload["exp"] =>
                   LET got == verify_token(call.out, t)
                   IN  /\ got.some
                       /\ DOMAIN got.val = DOMAIN call.data \cup {"exp"}
                       /\ \A k \in DOMAIN call.data : got.val[k] = call.data[k]

\* A token was made from a claim set and the clock is before its exp.
C5_Witness ==
    /\ call.fn = "create_access_token"
    /\ call.data \in ClaimSets
    /\ now < call.out.payload["exp"]
    /\ verify_token(call.out, now).some

RECURSIVE StripZeros(_)
StripZeros(s) == IF Len(s) > 1 /\ s[1] = "0" THEN StripZeros(Tail(s)) ELSE s

\* The str s is a decimal numeral of the integer n.
Denotes(s, n) ==
    /\ s # <<>>
    /\ LET signed == s[1] \in {"-", "+"}
           body == IF signed THEN Tail(s) ELSE s
       IN  /\ AllDigits(body)
           /\ StripZeros(body) = NatToStr(IF n < 0 THEN 0 - n ELSE n)
           /\ n < 0 => s[1] = "-"
           /\ s[1] = "-" => n <= 0

\* C6: get_user_id_from_token returns an id exactly when verify_token
\* accepts the token and its subject is present and a decimal numeral, and
\* the id is the number the subject denotes, so n for the subject str(n);
\* in every other case (token refused, subject missing, empty or not
\* numeric) it returns None.
C6_ExtractUserId ==
    call.fn = "get_user_id_from_token" =>
        LET tok == call.token
            accepted == verify_token(tok, call.at).some
            has_sub == "sub" \in DOMAIN tok.payload
        IN  /\ ~accepted => call.out = None
            /\ (~has_sub \/ (has_sub /\ tok.payload["sub"] = <<>>)) => call.out = None
            /\ (has_sub /\ \E i \in 1..Len(tok.payload["sub"]) :
                               ~IsDigit(tok.payload["sub"][i])
                               /\ ~(i = 1 /\ tok.payload["sub"][i] \in {"-", "+"}))
                   => call.out = None
            /\ \A n \in (0 - 20)..20 :
                   (accepted /\ has_sub /\ tok.payload["sub"] = PyStr(n))
                       => call.out = Some(n)
            /\ call.out.some => Denotes(tok.payload["sub"], call.out.val)
            /\ (accepted /\ has_sub /\ \E n \in (0 - 20)..20 : Denotes(tok.payload["sub"], n))
                   => call.out.some

\* get_user_id_from_token returned the id of a two-digit subject, 12.
C6_Witness ==
    /\ call.fn = "get_user_id_from_token"
    /\ call.out.some
    /\ call.token.payload["sub"] = <<"1", "2">>
    /\ call.out.val = 12

----------------------------------------------------------------------------
(* Requests handled concurrently.  A handler gives up control at each      *)
(* await: register between its two selects and its commit, lifespan        *)
(* between its select and its commit.  Each has its own session; a select  *)
(* reads the committed store.                                              *)

MaxSessions == 2    \* register requests and startups in flight at once

Idle == [kind |-> "idle", pc |-> "idle"]

RegisterSession(pc, username, email, status) ==
    [kind |-> "register", pc |-> pc, username |-> username, email |-> email,
     status |-> status]

LifespanSession(pc, admin_user, ok) ==
    [kind |-> "lifespan", pc |-> pc, admin_user |-> admin_user, ok |-> ok]

\* A register request arrives.
StartRegister(i, username, email) ==
    /\ sessions[i] = Idle
    /\ sessions' = [sessions EXCEPT ![i] = RegisterSession("select_email", username, email, 0)]
    /\ UNCHANGED <<users, sellers, products, orders, tokens, now, resp, call>>

\* register: select(User).where(User.email == user_data.email)
RegisterSelectEmail(i) ==
    LET q == sessions[i]
        existing_user_email == scalar_one_or_none({u \in users : u.email = q.email})
    IN  /\ q.kind = "register" /\ q.pc = "select_email"
        /\ sessions' = [sessions EXCEPT ![i] =
               IF Raised(existing_user_email)
               THEN RegisterSession("done", q.username, q.email, 500)
               ELSE IF existing_user_email.some
                    THEN RegisterSession("done", q.username, q.email, 400)
                    ELSE RegisterSession("select_username", q.username, q.email, 0)]
        /\ UNCHANGED <<users, sellers, products, orders, tokens, now, resp, call>>

\* register: select(User).where(User.username == user_data.username)
RegisterSelectUsername(i) ==
    LET q == sessions[i]
        existing_user_username ==
            scalar_one_or_none({u \in users : u.username = q.username})
    IN  /\ q.kind = "register" /\ q.pc = "select_username"
        /\ sessions' = [sessions EXCEPT ![i] =
               IF Raised(existing_user_username)
               THEN RegisterSession("done", q.username, q.email, 500)
               ELSE IF existing_user_username.some
                    THEN RegisterSession("done", q.username, q.email, 400)
                    ELSE RegisterSession("commit", q.username, q.email, 0)]
        /\ UNCHANGED <<users, sellers, products, orders, tokens, now, resp, call>>

\* register: db.add(db_user); await db.commit()
RegisterCommit(i) ==
    LET q == sessions[i]
        ins == InsertUser(users, q.username, q.email, get_password_hash(pw123456), FALSE)
    IN  /\ q.kind = "register" /\ q.pc = "commit"
        /\ ins.ok => NextId(users) <= MaxUserId
        /\ users' = ins.rows
        /\ sessions' = [sessions EXCEPT ![i] =
               RegisterSession("done", q.username, q.email, IF ins.ok THEN 201 ELSE 500)]
        /\ UNCHANGED <<sellers, products, orders, tokens, now, resp, call>>

\* Another worker starts up.
StartLifespan(i) ==
    /\ sessions[i] = Idle
    /\ sessions' = [sessions EXCEPT ![i] = LifespanSession("select_admin", None, TRUE)]
    /\ UNCHANGED <<users, sellers, products, orders, tokens, now, resp, call>>

\* lifespan: select(User).where(User.username == "admin")
LifespanSelectAdmin(i) ==
    LET q == sessions[i]
        admin_user == scalar_one_or_none({u \in users : u.username = "admin"})
    IN  /\ q.kind = "lifespan" /\ q.pc = "select_admin"
        /\ sessions' = [sessions EXCEPT ![i] =
               IF Raised(admin_user) THEN LifespanSession("done", None, FALSE)
               ELSE LifespanSession("write_admin", admin_user, TRUE)]
        /\ UNCHANGED <<users, sellers, products, orders, tokens, now, resp, call>>

\* lifespan: the branch on admin_user, up to its commit
LifespanWriteAdmin(i) ==
    LET q == sessions[i]
        ins == InsertUser(users, "admin", "admin@example.com",
                          get_password_hash(admin123), TRUE)
    IN  /\ q.kind = "lifespan" /\ q.pc = "write_admin"
        /\ IF ~q.admin_user.some
           THEN /\ ins.ok => NextId(users) <= MaxUserId
                /\ users' = ins.rows
                /\ sessions' = [sessions EXCEPT ![i] =
                       IF ins.ok THEN LifespanSession("seed", q.admin_user, TRUE)
                       ELSE LifespanSession("done", q.admin_user, FALSE)]
           ELSE /\ users' = {IF u.id = q.admin_user.val.id
                             THEN [u EXCEPT !.is_admin = TRUE] ELSE u : u \in users}
                /\ sessions' = [sessions EXCEPT ![i] =
                       LifespanSession("seed", q.admin_user, TRUE)]
        /\ UNCHANGED <<sellers, products, orders, tokens, now, resp, call>>

\* lifespan: the sellers and the products blocks
LifespanSeed(i) ==
    LET q == sessions[i]
        s == LifespanSellersFrom(sellers, 1)
    IN  /\ q.kind = "lifespan" /\ q.pc = "seed"
        /\ sellers' = IF s.ok THEN s.rows ELSE sellers
        /\ products' = IF s.ok THEN LifespanProducts(products, s.rows) ELSE products
        /\ sessions' = [sessions EXCEPT ![i] = LifespanSession("done", q.admin_user, s.ok)]
        /\ UNCHANGED <<users, orders, tokens, now, resp, call>>

\* The response is sent, or the startup is over.
Finish(i) ==
    /\ sessions[i].pc = "done"
    /\ sessions' = [sessions EXCEPT ![i] = Idle]
    /\ UNCHANGED <<users, sellers, products, orders, tokens, now, resp, call>>

\* The tables are there and empty, and the first worker is starting.
InitRace ==
    /\ users = {} /\ sellers = {} /\ products = {} /\ orders = {}
    /\ tokens = {}
    /\ now = 0
    /\ resp = NoResponse
    /\ call = NoCall
    /\ sessions = [i \in 1..MaxSessions |->
                      IF i = 1 THEN LifespanSession("select_admin", None, TRUE) ELSE Idle]

NextRace ==
    \E i \in 1..MaxSessions :
        \/ \E un \in Usernames, e \in Emails : StartRegister(i, un, e)
        \/ RegisterSelectEmail(i)
        \/ RegisterSelectUsername(i)
        \/ RegisterCommit(i)
        \/ StartLifespan(i)
        \/ LifespanSelectAdmin(i)
        \/ LifespanWriteAdmin(i)
        \/ LifespanSeed(i)
        \/ Finish(i)

SpecRace == InitRace /\ [][NextRace]_vars

----------------------------------------------------------------------------
(* app/main.py: products and sellers *)

\* Table products: name, price and seller_id are not null.
ProductRowValid(row) == row.name.some /\ row.price.some /\ row.seller_id.some

\* A field of a request body whose fields are optional: left out, or given
\* with a value that may be null.
Unset == [set |-> FALSE]

Given(v) == [set |-> TRUE, v |-> v]

\* create_product(product_data, db) after its gate: the status and the
\* products table it leaves.
create_product(prows, srows, name, price, seller_id) ==
    LET seller == scalar_one_or_none({r \in srows : r.id = seller_id})
        product == [id |-> NextId(prows), name |-> Some(name), price |-> Some(price),
                    seller_id |-> Some(seller_id)]
    IN  IF ~seller.some THEN [status |-> 400, rows |-> prows]
        ELSE IF price <= 0 THEN [status |-> 422, rows |-> prows]
        ELSE [status |-> 201, rows |-> prows \cup {product}]

\* The product with the fields the request sets: product_data.dict(
\* exclude_unset=True) applied with setattr.
ApplyUpdate(product, name, price, seller_id) ==
    [id |-> product.id,
     name |-> IF name.set THEN name.v ELSE product.name,
     price |-> IF price.set THEN price.v ELSE product.price,
     seller_id |-> IF seller_id.set THEN seller_id.v ELSE product.seller_id]

UpdateProductSellerUnchecked(prows, srows, product_id, name, price, seller_id) ==
    LET product == scalar_one_or_none({r \in prows : r.id = product_id})
        updated == ApplyUpdate(product.val, name, price, seller_id)
    IN  IF ~product.some THEN [status |-> 404, rows |-> prows]
        ELSE IF price.set /\ price.v.some /\ price.v.val <= 0
             THEN [status |-> 422, rows |-> prows]
        ELSE IF ~ProductRowValid(updated) THEN [status |-> 500, rows |-> prows]
        ELSE [status |-> 200, rows |-> (prows \ {product.val}) \cup {updated}]

UpdateProductPriceUnchecked(prows, srows, product_id, name, price, seller_id) ==
    LET product == scalar_one_or_none({r \in prows : r.id = product_id})
        seller == IF seller_id.set /\ seller_id.v.some
                  THEN scalar_one_or_none({r \in srows : r.id = seller_id.v.val})
                  ELSE None
        updated == ApplyUpdate(product.val, name, price, seller_id)
    IN  IF ~product.some THEN [status |-> 404, rows |-> prows]
        ELSE IF seller_id.set /\ seller_id.v.some /\ ~seller.some
             THEN [status |-> 400, rows |-> prows]
        ELSE IF ~ProductRowValid(updated) THEN [status |-> 500, rows |-> prows]
        ELSE [status |-> 200, rows |-> (prows \ {product.val}) \cup {updated}]

\* update_product(product_id, product_data, db) after its gate
update_product(prows, srows, product_id, name, price, seller_id) ==
    LET product == scalar_one_or_none({r \in prows : r.id = product_id})
        seller == IF seller_id.set /\ seller_id.v.some
                  THEN scalar_one_or_none({r \in srows : r.id = seller_id.v.val})
                  ELSE None
        updated == ApplyUpdate(product.val, name, price, seller_id)
    IN  IF ~product.some THEN [status |-> 404, rows |-> prows]
        ELSE IF seller_id.set /\ seller_id.v.some /\ ~seller.some
             THEN [status |-> 400, rows |-> prows]
        ELSE IF price.set /\ price.v.some /\ price.v.val <= 0
             THEN [status |-> 422, rows |-> prows]
        ELSE IF ~ProductRowValid(updated) THEN [status |-> 500, rows |-> prows]
        ELSE [status |-> 200, rows |-> (prows \ {product.val}) \cup {updated}]

\* delete_product(product_id, db) after its gate
delete_product(prows, product_id) ==
    LET product == scalar_one_or_none({r \in prows : r.id = product_id})
    IN  IF ~product.some THEN [status |-> 404, rows |-> prows]
        ELSE [status |-> 204, rows |-> prows \ {product.val}]

\* create_seller(seller_data, db) after its gate; 100 percent is 1000.
create_seller(srows, name, commission_percent) ==
    IF ~(0 <= commission_percent /\ commission_percent <= 1000)
    THEN [status |-> 422, rows |-> srows]
    ELSE [status |-> 201,
          rows |-> srows \cup {[id |-> NextId(srows), name |-> name,
                                commission_percent |-> commission_percent]}]

\* delete_seller(seller_id, db) after its gate.  The route is
\* /sellers/{sellers_id}: seller_id is a query parameter, and a request
\* without it is answered 422.
delete_seller(srows, seller_id) ==
    LET seller == IF seller_id.some
                  THEN scalar_one_or_none({r \in srows : r.id = seller_id.val})
                  ELSE None
    IN  IF ~seller_id.some THEN [status |-> 422, rows |-> srows]
        ELSE IF ~seller.some THEN [status |-> 404, rows |-> srows]
        ELSE [status |-> 204, rows |-> srows \ {seller.val}]

MaxProductId == 4   \* no product is given an id above this

MaxSellerId == 6    \* no seller is given an id above this

\* What the handler behind the admin gate answers: the gate's refusal, or
\* the handler's own status.
Gated(op, token, gate, status, req) ==
    [Response(op, Some(token), gate,
              IF gate.status # 200 THEN gate.status ELSE status, None)
        EXCEPT !.req = IF gate.status # 200 THEN None ELSE req]

CreateProduct(token, name, price, seller_id) ==
    LET gate == get_current_admin(token)
        r == create_product(products, sellers, name, price, seller_id)
    IN  /\ (gate.status = 200 /\ r.status = 201) => NextId(products) <= MaxProductId
        /\ products' = IF gate.status = 200 THEN r.rows ELSE products
        /\ resp' = Gated("create_product", token, gate, r.status,
                         [name |-> name, price |-> price, seller_id |-> seller_id])
        /\ UNCHANGED <<users, sellers, orders, tokens, now, call, sessions>>

UpdateProduct(token, product_id, name, price, seller_id) ==
    LET gate == get_current_admin(token)
        r == update_product(products, sellers, product_id, name, price, seller_id)
    IN  /\ products' = IF gate.status = 200 THEN r.rows ELSE products
        /\ resp' = Gated("update_product", token, gate, r.status,
                         [product_id |-> product_id, name |-> name, price |-> price,
                          seller_id |-> seller_id])
        /\ UNCHANGED <<users, sellers, orders, tokens, now, call, sessions>>

DeleteProduct(token, product_id) ==
    LET gate == get_current_admin(token)
        r == delete_product(products, product_id)
    IN  /\ products' = IF gate.status = 200 THEN r.rows ELSE products
        /\ resp' = Gated("delete_product", token, gate, r.status,
                         [product_id |-> product_id])
        /\ UNCHANGED <<users, sellers, orders, tokens, now, call, sessions>>

CreateSeller(token, name, commission_percent) ==
    LET gate == get_current_admin(token)
        r == create_seller(sellers, name, commission_percent)
    IN  /\ (gate.status = 200 /\ r.status = 201) => NextId(sellers) <= MaxSellerId
        /\ sellers' = IF gate.status = 200 THEN r.rows ELSE sellers
        /\ resp' = Gated("create_seller", token, gate, r.status,
                         [name |-> name, commission_percent |-> commission_percent])
        /\ UNCHANGED <<users, products, orders, tokens, now, call, sessions>>

DeleteSellerUngated(token, seller_id) ==
    LET gate == get_current_admin(token)
        r == delete_seller(sellers, seller_id)
    IN  /\ sellers' = r.rows
        /\ resp' = Gated("delete_seller", token, gate, r.status, [seller_id |-> seller_id])
        /\ UNCHANGED <<users, products, orders, tokens, now, call, sessions>>

DeleteSeller(token, seller_id) ==
    LET gate == get_current_admin(token)
        r == delete_seller(sellers, seller_id)
    IN  /\ sellers' = IF gate.status = 200 THEN r.rows ELSE sellers
        /\ resp' = Gated("delete_seller", token, gate, r.status, [seller_id |-> seller_id])
        /\ UNCHANGED <<users, products, orders, tokens, now, call, sessions>>

\* Request inputs.  Prices are in hundredths: -5, 0 and two good prices.
Prices == {0 - 500, 0, 10000, 20000}

SellerIds == {2, 99}

ProductIds == {1, 99}

\* The bodies of update requests: one field or none, and pairs of fields
\* of which none, one or both are refused.
UpdateBodies ==
    {<<Unset, p, Unset>> :
        p \in {Unset, Given(None), Given(Some(0 - 500)), Given(Some(0)), Given(Some(20000))}}
    \cup {<<Unset, Unset, i>> : i \in {Given(None), Given(Some(2)), Given(Some(99))}}
    \cup {<<Given(Some("Gadget")), Given(Some(0)), Unset>>,
          <<Given(Some("Gadget")), Unset, Given(Some(99))>>,
          <<Unset, Given(Some(20000)), Given(Some(2))>>,
          <<Unset, Given(Some(0)), Given(Some(99))>>}

\* Update requests: every body for product 1, two for a product that is
\* not there.
UpdateRequests ==
    {<<1, b>> : b \in UpdateBodies}
    \cup {<<99, <<Unset, Given(Some(20000)), Unset>> >>,
          <<99, <<Unset, Given(Some(0)), Unset>> >>}

Commissions == {0 - 1, 0, 1000, 1001}

\* The bearer tokens the shop's requests carry: the held ones, and the
\* admin's claims signed with another key.
ShopTokens ==
    tokens \cup {JwtEncode(tok.payload, "attacker-key") :
                    tok \in {t \in tokens : t.payload["is_admin"]}}

NextShop ==
    \/ Register("alice", "alice@x.com", pw123456)
    \/ \E e \in Emails : Login(e, IF e = "alice@x.com" THEN pw123456 ELSE admin123)
    \/ \E tok \in ShopTokens, p \in Prices \ {20000}, i \in SellerIds :
           CreateProduct(tok, "Widget", p, i)
    \/ \E tok \in tokens, u \in UpdateRequests :
           UpdateProduct(tok, u[1], u[2][1], u[2][2], u[2][3])
    \/ \E tok \in tokens, i \in ProductIds : DeleteProduct(tok, i)
    \/ \E tok \in tokens, c \in Commissions : CreateSeller(tok, "NewShop", c)
    \/ \E tok \in tokens, i \in {None} \cup {Some(j) : j \in SellerIds} :
           DeleteSeller(tok, i)

SpecShop == Init /\ [][NextShop]_vars

\* The seller a request names is in table sellers.
SellerExists(seller_id) == \E r \in sellers : r.id = seller_id

\* The create request that was answered supplies a price of 0 or less, or
\* the id of no seller.
BadCreate(r) ==
    /\ r.op = "create_product" /\ r.req # None
    /\ (r.req.price <= 0 \/ ~SellerExists(r.req.seller_id))

\* The update request that was answered supplies a price of 0 or less, or
\* the id of no seller.
BadUpdate(r) ==
    /\ r.op = "update_product" /\ r.req # None
    /\ \/ (r.req.price.set /\ r.req.price.v.some /\ r.req.price.v.val <= 0)
       \/ (r.req.seller_id.set /\ r.req.seller_id.v.some
            /\ ~SellerExists(r.req.seller_id.v.val))

\* C10: a create or update request for a product that supplies a price of
\* 0 or less, or a seller_id of no existing seller, leaves table products
\* as it was and is refused with 400 for the seller, else 422 for the
\* price, or 404 for an update of no product; and a request the gate
\* refuses leaves the table as it was.
C10_ProductRejections ==
    [][/\ BadCreate(resp') =>
             /\ products' = products
             /\ resp'.status = (IF ~SellerExists(resp'.req.seller_id) THEN 400 ELSE 422)
       /\ BadUpdate(resp') =>
             /\ products' = products
             /\ resp'.status \in {400, 404, 422}
       /\ (resp'.op \in {"create_product", "update_product"} /\ resp'.gate.status # 200)
             => (products' = products /\ resp'.status \in {401, 403, 404})]_vars

\* An admin's update that names a new name and the price 0 was refused
\* with 422, and the product has its old name.
C10_Witness ==
    /\ resp.op = "update_product"
    /\ resp.gate.status = 200
    /\ resp.req.name.set
    /\ resp.req.price = Given(Some(0))
    /\ resp.status = 422
    /\ \E r \in products : r.id = resp.req.product_id /\ r.name # resp.req.name.v

----------------------------------------------------------------------------
(* Bounds of the stored values *)

----------------------------------------------------------------------------
(* app/main.py: orders *)

\* The attributes class Order maps: its columns and its relationships.
OrderAttributes ==
    {"id", "user_id", "seller_id", "total", "created_at", "user", "seller", "order_items"}

\* Order(**kwargs): the declarative constructor sets mapped attributes and
\* raises TypeError for any other keyword.
Order(kwargs) ==
    IF DOMAIN kwargs \subseteq OrderAttributes THEN Some(kwargs) ELSE None

\* OrderCreate parsed from a JSON body: seller_id and total are required,
\* and a key that is no field of the schema is dropped.
OrderCreate(body) ==
    IF {"seller_id", "total"} \subseteq DOMAIN body
    THEN Some([seller_id |-> body.seller_id, total |-> body.total])
    ELSE None

\* create_order(order_data, db, current_user_id) after its gate.  Reading an
\* attribute that order_data does not have raises AttributeError, and the
\* request is answered 500.
create_order(orows, prows, order_data, current_user_id) ==
    IF "product_id" \notin DOMAIN order_data THEN [status |-> 500, rows |-> orows]
    ELSE LET product == scalar_one_or_none({r \in prows : r.id = order_data.product_id})
             order == Order([user_id |-> current_user_id,
                             product_id |-> order_data.product_id,
                             count |-> order_data.count])
         IN  IF ~product.some THEN [status |-> 400, rows |-> orows]
             ELSE IF "count" \notin DOMAIN order_data THEN [status |-> 500, rows |-> orows]
             ELSE IF order_data.count <= 0 THEN [status |-> 422, rows |-> orows]
             ELSE IF ~order.some THEN [status |-> 500, rows |-> orows]
             ELSE [status |-> 200,
                   rows |-> orows \cup {[id |-> NextId(orows)] @@ order.val}]

\* get_my_orders(skip, limit, db, current_user_id) with skip = 0 and a limit
\* above the number of rows
get_my_orders(orows, current_user_id) == {o \in orows : o.user_id = current_user_id}

\* get_order(order_id, db, admin_data) after its gate
get_order(orows, order_id) ==
    LET order == scalar_one_or_none({o \in orows : o.id = order_id})
    IN  IF ~order.some THEN [status |-> 404, body |-> None]
        ELSE [status |-> 200, body |-> order]

DeleteOrderAnyOwner(orows, order_id, current_user_id) ==
    LET order == scalar_one_or_none({o \in orows : o.id = order_id})
    IN  IF ~order.some THEN [status |-> 404, rows |-> orows]
        ELSE [status |-> 204, rows |-> orows \ {order.val}]

\* delete_order(order_id, db, current_user_id) after its gate
delete_order(orows, order_id, current_user_id) ==
    LET order == scalar_one_or_none({o \in orows : o.id = order_id
                                                   /\ o.user_id = current_user_id})
    IN  IF ~order.some THEN [status |-> 404, rows |-> orows]
        ELSE [status |-> 204, rows |-> orows \ {order.val}]

CreateOrder(token, body) ==
    LET gate == get_current_user(token)
        order_data == OrderCreate(body)
        r == create_order(orders, products, order_data.val, gate.value)
    IN  /\ orders' = IF gate.status = 200 /\ order_data.some THEN r.rows ELSE orders
        /\ resp' = Gated("create_order", token, gate,
                         IF ~order_data.some THEN 422 ELSE r.status, body)
        /\ UNCHANGED <<users, sellers, products, tokens, now, call, sessions>>

GetMyOrders(token) ==
    LET gate == get_current_user(token)
    IN  /\ resp' = IF gate.status # 200
                   THEN Response("get_my_orders", Some(token), gate, gate.status, None)
                   ELSE Response("get_my_orders", Some(token), gate, 200,
                                 Some(get_my_orders(orders, gate.value)))
        /\ UNCHANGED <<users, sellers, products, orders, tokens, now, call, sessions>>

GetOrder(token, order_id) ==
    LET gate == get_current_admin(token)
        r == get_order(orders, order_id)
    IN  /\ resp' = [Gated("get_order", token, gate, r.status, [order_id |-> order_id])
                       EXCEPT !.body = IF gate.status = 200 THEN r.body ELSE None]
        /\ UNCHANGED <<users, sellers, products, orders, tokens, now, call, sessions>>

DeleteOrder(token, order_id) ==
    LET gate == get_current_user(token)
        r == delete_order(orders, order_id, gate.value)
    IN  /\ orders' = IF gate.status = 200 THEN r.rows ELSE orders
        /\ resp' = Gated("delete_order", token, gate, r.status, [order_id |-> order_id])
        /\ UNCHANGED <<users, sellers, products, tokens, now, call, sessions>>

----------------------------------------------------------------------------
(* The order endpoints, on a store that holds orders.  The store is the
   file marketplace.db, which keeps its rows from one run of the service
   to the next; lifespan leaves table orders as it finds it. *)

\* Rows of table orders; totals are in hundredths.
StoredOrders ==
    SUBSET {[id |-> 1, user_id |-> 1, seller_id |-> 1, total |-> 2999999],
            [id |-> 2, user_id |-> 2, seller_id |-> 1, total |-> 5499999],
            [id |-> 3, user_id |-> 2, seller_id |-> 2, total |-> 1999999]}

\* JSON bodies of POST /orders
OrderBodies ==
    {[product_id |-> 1, count |-> 2, seller_id |-> 1, total |-> 5999998],
     [product_id |-> 1, count |-> 2],
     [seller_id |-> 1, total |-> 5999998],
     [product_id |-> 99, count |-> 2, seller_id |-> 1, total |-> 5999998],
     [product_id |-> 1, count |-> 0, seller_id |-> 1, total |-> 5999998]}

OrderIds == {1, 2, 99}

InitOrders ==
    /\ users = register(lifespan(EmptyStore)[1], "alice", "alice@x.com", pw123456).rows
    /\ sellers = lifespan(EmptyStore)[2]
    /\ products = lifespan(EmptyStore)[3]
    /\ orders \in StoredOrders
    /\ tokens = {}
    /\ now = 0
    /\ resp = NoResponse
    /\ call = NoCall
    /\ sessions = {}

NextOrders ==
    \/ \E e \in Emails : Login(e, IF e = "alice@x.com" THEN pw123456 ELSE admin123)
    \/ \E tok \in ShopTokens, b \in OrderBodies : CreateOrder(tok, b)
    \/ \E tok \in ShopTokens : GetMyOrders(tok)
    \/ \E tok \in ShopTokens : GetOrders(tok)
    \/ \E tok \in ShopTokens, i \in OrderIds : GetOrder(tok, i)
    \/ \E tok \in ShopTokens, i \in OrderIds : DeleteOrder(tok, i)
    \/ \E tok \in ShopTokens, i \in ProductIds : DeleteProduct(tok, i)

SpecOrders == InitOrders /\ [][NextOrders]_vars

NamesProductAndCount(body) ==
    /\ {"product_id", "count"} \subseteq DOMAIN body
    /\ \E p \in products : p.id = body.product_id
    /\ body.count > 0

\* C13: a create_order request of an authenticated caller that names a
\* product the store has and a count above 0 adds exactly one order, owned
\* by the user of the token, for that product and that count; any other
\* create_order request is refused and adds no order.
C13_OrderCreation ==
    [][(resp'.op = "create_order" /\ resp'.gate.status = 200) =>
          IF NamesProductAndCount(resp'.req)
          THEN \E o \in orders' \ orders :
                  /\ orders' = orders \cup {o}
                  /\ o.user_id = PyInt(resp'.token.val.payload["sub"]).val
                  /\ {"product_id", "count"} \subseteq DOMAIN o
                  /\ o.product_id = resp'.req.product_id
                  /\ o.count = resp'.req.count
          ELSE orders' = orders /\ resp'.status \notin {200, 201}]_vars

\* The user the token of the answered request is about.
Caller(r) == PyInt(r.token.val.payload["sub"]).val

----------------------------------------------------------------------------
(* app/main.py: reading products and sellers; requests without a token *)

\* get_products(skip, limit, db) and get_sellers(skip, limit, db) with
\* skip = 0 and a limit above the number of rows
get_products(prows) == prows

get_sellers(srows) == srows

\* get_product(product_id, db) and get_seller(seller_id, db)
get_product(prows, product_id) ==
    LET product == scalar_one_or_none({r \in prows : r.id = product_id})
    IN  IF ~product.some THEN [status |-> 404, body |-> None]
        ELSE [status |-> 200, body |-> product]

get_seller(srows, seller_id) ==
    LET seller == scalar_one_or_none({r \in srows : r.id = seller_id})
    IN  IF ~seller.some THEN [status |-> 404, body |-> None]
        ELSE [status |-> 200, body |-> seller]

GetProducts ==
    /\ resp' = Response("get_products", None, NoGate, 200, Some(get_products(products)))
    /\ UNCHANGED <<users, sellers, products, orders, tokens, now, call, sessions>>

GetSellers ==
    /\ resp' = Response("get_sellers", None, NoGate, 200, Some(get_sellers(sellers)))
    /\ UNCHANGED <<users, sellers, products, orders, tokens, now, call, sessions>>

GetProduct(product_id) ==
    LET r == get_product(products, product_id)
    IN  /\ resp' = Response("get_product", None, NoGate, r.status, r.body)
        /\ UNCHANGED <<users, sellers, products, orders, tokens, now, call, sessions>>

GetSeller(seller_id) ==
    LET r == get_seller(sellers, seller_id)
    IN  /\ resp' = Response("get_seller", None, NoGate, r.status, r.body)
        /\ UNCHANGED <<users, sellers, products, orders, tokens, now, call, sessions>>

\* The handlers of products and sellers behind Depends(get_current_admin)
AdminOps ==
    {"create_product", "update_product", "delete_product", "create_seller", "delete_seller"}

\* What HTTPBearer answers a request that carries no bearer token: 403, or
\* 401, by the release of the framework.
NotAuthenticated == {401, 403}

\* A request to a gated handler without an Authorization header: security
\* raises before the gate and the handler run.
NoBearer(op) ==
    /\ \E s \in NotAuthenticated :
           resp' = Response(op, None, [status |-> s], s, None)
    /\ UNCHANGED <<users, sellers, products, orders, tokens, now, call, sessions>>

NextGate ==
    \/ Register("alice", "alice@x.com", pw123456)
    \/ \E e \in Emails : Login(e, IF e = "alice@x.com" THEN pw123456 ELSE admin123)
    \/ \E id \in OperatorEdits, flag \in BOOLEAN : SetAdminFlag(id, flag)
    \/ \E tok \in ShopTokens : CreateProduct(tok, "Widget", 10000, 2)
    \/ \E tok \in ShopTokens : UpdateProduct(tok, 1, Unset, Given(Some(20000)), Unset)
    \/ \E tok \in ShopTokens : DeleteProduct(tok, 1)
    \/ \E tok \in ShopTokens : CreateSeller(tok, "NewShop", 1000)
    \/ \E tok \in ShopTokens : DeleteSeller(tok, Some(2))
    \/ \E op \in AdminOps : NoBearer(op)
    \/ GetProducts
    \/ GetSellers
    \/ \E i \in ProductIds : GetProduct(i)
    \/ \E i \in SellerIds : GetSeller(i)

SpecGate == Init /\ [][NextGate]_vars

\* C15: table sellers and table products change only in a request to one of
\* their gated handlers whose token verifies and names a user whose admin
\* flag in the store is true; a request without a token, with an invalid
\* token or with the token of a user who is no admin changes neither; and
\* the list and read handlers answer a request that carries no token.
C15_AdminOnlyMutation ==
    [][/\ (sellers' # sellers \/ products' # products) =>
             /\ resp'.op \in AdminOps
             /\ resp'.token.some
             /\ verify_token(resp'.token.val, now).some
             /\ \E u \in users : u.id = Caller(resp') /\ u.is_admin
       /\ resp'.op = "get_products" => (resp'.status = 200 /\ resp'.body.val = products)
       /\ resp'.op = "get_sellers" => (resp'.status = 200 /\ resp'.body.val = sellers)
       /\ resp'.op \in {"get_product", "get_seller"} => resp'.status \in {200, 404}
       /\ resp'.op \in {"get_products", "get_sellers", "get_product", "get_seller"}
             => ~resp'.token.some]_vars

\* A user who logged in as an admin and was demoted afterwards asked to
\* delete a seller that exists, and was refused with 403.
C15_Witness ==
    /\ resp.op = "delete_seller"
    /\ resp.token.some
    /\ resp.token.val \in tokens
    /\ resp.token.val.payload["is_admin"]
    /\ resp.status = 403
    /\ \E r \in sellers : r.id = 2

----------------------------------------------------------------------------
(* The startup, on the stores a service can be started on: a new file, the
   store an earlier startup left, and stores with accounts, sellers and
   products from before. *)

\* Accounts of a store: the bootstrap account with and without its flag,
\* registered accounts, one of them named admin under another email and
\* one under the email the bootstrap account is created with.
BootAccounts ==
    {[id |-> 1, username |-> "admin", email |-> "admin@example.com",
      hashed_password |-> get_password_hash(admin123), is_admin |-> flag] :
        flag \in BOOLEAN}
    \cup {[id |-> 1, username |-> "admin", email |-> "root@x.com",
           hashed_password |-> get_password_hash(pw123456), is_admin |-> FALSE],
          [id |-> 2, username |-> "alice", email |-> "alice@x.com",
           hashed_password |-> get_password_hash(pw123456), is_admin |-> FALSE],
          [id |-> 2, username |-> "alice", email |-> "admin@example.com",
           hashed_password |-> get_password_hash(pw123456), is_admin |-> FALSE],
          [id |-> 3, username |-> "carol", email |-> "carol@x.com",
           hashed_password |-> get_password_hash(pw123456), is_admin |-> TRUE]}

BootUsers == {rows \in SUBSET BootAccounts : UsersUnique(rows)}

\* Tables sellers: none, the seeded ones, the seeded ones without the first,
\* with a second seller of a seeded name, and one seller of another name.
BootSellers ==
    LET seeded == LifespanSellersFrom({}, 1).rows
    IN  {{}, seeded, {r \in seeded : r.id # 1},
         seeded \cup {[id |-> 6, name |-> "ElectroTech", commission_percent |-> 1000]},
         {[id |-> 1, name |-> "NewShop", commission_percent |-> 0]}}

\* Tables products: none, the seeded ones, and one product of another name.
BootProducts ==
    {{}, AddProducts({}, test_products(1), 1),
     {[id |-> 1, name |-> Some("Widget"), price |-> Some(10000), seller_id |-> Some(1)]}}

InitBoot ==
    /\ users \in BootUsers
    /\ sellers \in BootSellers
    /\ products \in BootProducts
    /\ orders = {}
    /\ tokens = {}
    /\ now = 0
    /\ resp = NoResponse
    /\ call = NoCall
    /\ sessions = {}

\* The service starts: lifespan runs up to its yield.
Startup ==
    LET d == lifespan(<<users, sellers, products, orders>>)
    IN  /\ users' = d[1]
        /\ sellers' = d[2]
        /\ products' = d[3]
        /\ orders' = d[4]
        /\ resp' = Response("lifespan", None, NoGate, 0, None)
        /\ UNCHANGED <<tokens, now, call, sessions>>

NextBoot == Startup

SpecBoot == InitBoot /\ [][NextBoot]_vars

\* The account named admin, if the table has one.
AdminAccounts(rows) == {u \in rows : u.username = "admin"}

\* C16: a startup on the store a startup has left changes nothing; a startup
\* on a store whose account named admin has the admin flag false sets that
\* flag and adds no account; a startup on a store with no account named
\* admin adds exactly one account, named admin, with the admin flag true.
C16_BootstrapIdempotent ==
    [][resp'.op = "lifespan" =>
          /\ lifespan(<<users', sellers', products', orders'>>)
                = <<users', sellers', products', orders'>>
          /\ (\E u \in AdminAccounts(users) : ~u.is_admin) =>
                users' = {IF u.username = "admin" THEN [u EXCEPT !.is_admin = TRUE] ELSE u :
                             u \in users}
          /\ AdminAccounts(users) = {} =>
                \E a \in users' \ users :
                    /\ users' = users \cup {a}
                    /\ a.username = "admin"
                    /\ a.is_admin]_vars

----------------------------------------------------------------------------
(* The accounts under every kind of request, with restarts of the service
   and an operator who edits admin flags in between. *)

NextAccounts ==
    \/ \E u \in Usernames, e \in Emails : Register(u, e, pw123456)
    \/ \E e \in Emails : Login(e, IF e = "alice@x.com" THEN pw123456 ELSE admin123)
    \/ \E tok \in tokens : Me(tok)
    \/ \E tok \in tokens : UpdateProduct(tok, 1, Unset, Given(Some(20000)), Unset)
    \/ \E tok \in tokens : DeleteProduct(tok, 1)
    \/ \E tok \in tokens : CreateSeller(tok, "NewShop", 1000)
    \/ \E tok \in tokens :
           CreateOrder(tok, [product_id |-> 1, count |-> 2, seller_id |-> 1,
                             total |-> 5999998])
    \/ \E tok \in tokens : DeleteOrder(tok, 1)
    \/ \E i \in 1..MaxUserId, f \in BOOLEAN : SetAdminFlag(i, f)
    \/ Startup

SpecAccounts == Init /\ [][NextAccounts]_vars

\* The handlers of the API; the other steps are the operator's and the
\* startup's.
IsRequest(r) == r.op \notin {"none", "lifespan"}

\* C17: a request to the API leaves every stored account as it is, and the
\* only accounts it adds are those register creates, with the admin flag
\* false; a startup gives the admin flag to no account but the one named
\* admin.
C17_NoPrivilegeChange ==
    [][/\ IsRequest(resp') =>
             /\ users \subseteq users'
             /\ \A u \in users' \ users : resp'.op = "register" /\ ~u.is_admin
       /\ resp'.op = "lifespan" =>
             \A u \in users' :
                 (u.is_admin /\ ~(\E v \in users : v.id = u.id /\ v.is_admin))
                     => u.username = "admin"]_vars

\* register created an account while an admin holds a token: the account
\* is stored without the admin flag.
C17_Witness ==
    /\ resp.op = "register"
    /\ resp.status = 201
    /\ resp.body.val \in users
    /\ ~resp.body.val.is_admin
    /\ \E tok \in tokens : tok.payload["is_admin"]

----------------------------------------------------------------------------
(* app/security.py called with passwords around the 72 bytes, and /login
   on accounts whose stored hashed_password is a hash or another string *)

RECURSIVE Repeat(_, _)
Repeat(c, n) == IF n = 0 THEN <<>> ELSE <<c>> \o Repeat(c, n - 1)

\* Passwords of 8, 1, 71, 72, 73 and 74 bytes; the last four end in a
\* two-byte character that lies across, or ends at, byte 72.
HashPasswords ==
    {admin123, pw123456, <<"a">>, Repeat("a", 71), Repeat("a", 72),
     Repeat("a", 72) \o <<"b">>, Repeat("a", 72) \o <<"c">>,
     Repeat("a", 72) \o <<"b", "b">>,
     Repeat("a", 71) \o <<"e-acute">>, Repeat("a", 71) \o <<"e-grave">>,
     Repeat("a", 70) \o <<"e-acute">>, Repeat("a", 70) \o <<"e-grave">>}

\* Strings a hashed_password column can hold: the hash of admin123, a string
\* with the prefix of a bcrypt hash and too short a body, a plain password,
\* and the empty string.
StoredHashes ==
    {get_password_hash(admin123),
     [scheme |-> "bcrypt", text |-> "$2b$12$short"],
     [scheme |-> "none", text |-> "admin123"],
     [scheme |-> "none", text |-> ""]}

InitHash ==
    /\ \E h \in StoredHashes :
           users = {[u EXCEPT !.hashed_password = h] : u \in lifespan(EmptyStore)[1]}
    /\ sellers = lifespan(EmptyStore)[2]
    /\ products = lifespan(EmptyStore)[3]
    /\ orders = {}
    /\ tokens = {}
    /\ now = 0
    /\ resp = NoResponse
    /\ call = NoCall
    /\ sessions = {}

CallHash(password) ==
    /\ call' = [fn |-> "get_password_hash", password |-> password,
                out |-> get_password_hash(password)]
    /\ UNCHANGED <<users, sellers, products, orders, tokens, now, resp, sessions>>

\* verify_password(plain_password, hashed_password); of: the password that
\* hashed_password is the hash of, if it is one.
CallVerifyPassword(plain_password, hashed_password, of) ==
    /\ call' = [fn |-> "verify_password", plain_password |-> plain_password,
                hashed_password |-> hashed_password, of |-> of,
                out |-> verify_password(plain_password, hashed_password)]
    /\ UNCHANGED <<users, sellers, products, orders, tokens, now, resp, sessions>>

NextHash ==
    \/ \E p \in HashPasswords : CallHash(p)
    \/ \E plain \in HashPasswords, p \in HashPasswords :
           CallVerifyPassword(plain, get_password_hash(p), Some(p))
    \/ \E plain \in {admin123, pw123456}, h \in StoredHashes :
           CallVerifyPassword(plain, h, None)
    \/ \E p \in Passwords : Login("admin@example.com", p)

SpecHash == InitHash /\ [][NextHash]_vars

\* C18: verify_password(p', get_password_hash(p)) is true when p' is p and
\* false for every other p', also for passwords of more than 72 bytes.
C18_HasherRoundTrip ==
    (call.fn = "verify_password" /\ call.of.some) =>
        /\ ~Raised(call.out)
        /\ call.out.value = (call.plain_password = call.of.val)

\* The first n of the bytes.
FirstBytes(bytes, n) ==
    [i \in 1..(IF Len(bytes) < n THEN Len(bytes) ELSE n) |-> bytes[i]]

\* C18, amended: verify_password(p', get_password_hash(p)) is true exactly
\* when the UTF-8 bytes of p' and of p agree in their first 72 bytes; so
\* it is true for p' = p, false for every p' that differs from p in those
\* bytes, and true for a p' that differs from p only after them.
C18_RoundTripOnFirst72Bytes ==
    (call.fn = "verify_password" /\ call.of.some) =>
        /\ ~Raised(call.out)
        /\ call.out.value = (FirstBytes(encode(call.plain_password), 72)
                                = FirstBytes(encode(call.of.val), 72))

\* A password was verified against the hash of another password of more
\* than 72 bytes, and was accepted.
C18_Witness ==
    /\ call.fn = "verify_password"
    /\ call.of.some
    /\ call.plain_password # call.of.val
    /\ Len(encode(call.of.val)) > 72
    /\ call.out.value

\* C19: verify_password returns false and does not raise, whatever string
\* the stored hash is, and /login on an account with such a string answers
\* 401.
C19_VerifyNeverRaises ==
    /\ call.fn = "verify_password" => ~Raised(call.out)
    /\ resp.op = "login" => resp.status \in {200, 401}

----------------------------------------------------------------------------
(* Error classes and their statuses *)

\* The class of the error a refused request of a gated handler ran into
\* after it passed the gate: the first one the handler looks for.
HandlerErrorClass(r) ==
    IF r.op = "create_product"
    THEN IF ~SellerExists(r.req.seller_id) THEN "not_found"
         ELSE IF r.req.price <= 0 THEN "validation" ELSE "none"
    ELSE IF r.op = "update_product"
    THEN IF ~(\E p \in products : p.id = r.req.product_id) THEN "not_found"
         ELSE IF r.req.seller_id.set /\ r.req.seller_id.v.some
                 /\ ~SellerExists(r.req.seller_id.v.val) THEN "not_found"
         ELSE IF r.req.price.set /\ r.req.price.v.some /\ r.req.price.v.val <= 0
              THEN "validation"
         ELSE "none"
    ELSE IF r.op = "delete_product" THEN "not_found"
    ELSE IF r.op = "create_seller" THEN "validation"
    ELSE IF r.op = "delete_seller"
    THEN IF ~r.req.seller_id.some THEN "validation" ELSE "not_found"
    ELSE "none"

\* The class of the error a refused request ran into: a register request
\* is refused for a taken username or email, a login for its credentials,
\* and a request to a gated handler for its token, for the account the
\* token names, or by the handler.  "none": a request that was served, and
\* a server fault.
ErrorClass(r) ==
    IF r.status < 400 \/ r.status >= 500 THEN "none"
    ELSE IF r.op = "register" THEN "conflict"
    ELSE IF r.op = "login" THEN "authentication"
    ELSE IF ~r.token.some THEN "none"
    ELSE IF ~get_user_id_from_token(r.token.val, now).some THEN "authentication"
    ELSE IF SubjectRows(r.token.val) = {} THEN "not_found"
    ELSE IF \E u \in SubjectRows(r.token.val) : ~u.is_admin THEN "authorization"
    ELSE HandlerErrorClass(r)

\* C20: two refused requests are answered with the same status exactly when
\* their errors are of the same class: validation, conflict,
\* authentication, authorization, not-found.
C20_StatusPerErrorClass ==
    [][(ErrorClass(resp) # "none" /\ resp'.status >= 400 /\ resp'.status < 500
            /\ UNCHANGED <<users, sellers, products>>)
          => LET second == [op |-> resp'.op, status |-> resp'.status,
                            token |-> resp'.token, req |-> resp'.req]
             IN  ErrorClass(second) # "none"
                    => ((ErrorClass(resp) = ErrorClass(second))
                            <=> (resp.status = second.status))]_vars

----------------------------------------------------------------------------
(* Login *)

\* The accounts whose email is e and whose stored hash the password p
\* verifies against.
Matching(e, p) ==
    {u \in users : /\ u.email = e
                   /\ ~Raised(verify_password(p, u.hashed_password))
                   /\ verify_password(p, u.hashed_password).value}

\* C21: login answers with a token exactly when an account has the email
\* of the request and the password verifies against its stored hash; the
\* token verifies, its sub is the id of that account and its username,
\* email and is_admin are those of the stored row; a login with an unknown
\* email and one with a wrong password get one and the same 401 response;
\* login leaves the store as it was; and GET /me answers 200 with the
\* stored row of the account the token names.
C21_LoginIssuesToken ==
    [][/\ \A e \in Emails, p \in Passwords :
              Login(e, p) =>
                  /\ <<users, sellers, products, orders>>' = <<users, sellers, products, orders>>
                  /\ IF Matching(e, p) = {}
                     THEN resp' = Response("login", None, NoGate, 401, None)
                     ELSE /\ resp'.status = 200
                          /\ resp'.body.some
                          /\ verify_token(resp'.body.val, now).some
                          /\ \E u \in Matching(e, p) :
                                 LET claims == resp'.body.val.payload
                                 IN  /\ claims["sub"] = PyStr(u.id)
                                     /\ claims["username"] = u.username
                                     /\ claims["email"] = u.email
                                     /\ claims["is_admin"] = u.is_admin
       /\ (resp'.op = "me" /\ resp'.status = 200) =>
              /\ resp'.body.some
              /\ resp'.body.val \in users'
              /\ PyStr(resp'.body.val.id) = resp'.token.val.payload["sub"]]_vars

\* alice registered and logged in, and GET /me with her token returned her
\* stored row, with is_admin false.
C21_Witness ==
    /\ resp.op = "me"
    /\ resp.status = 200
    /\ resp.token.val \in tokens
    /\ resp.body.val \in users
    /\ resp.body.val.username = "alice"
    /\ ~resp.body.val.is_admin
    /\ ~resp.token.val.payload["is_admin"]

----------------------------------------------------------------------------
(* The expiry instant of a token *)

\* C22: the token create_access_token makes at time t carries exp = t + d
\* when it is given the ttl d, whatever d is, zero included, and
\* exp = t + ACCESS_TOKEN_EXPIRE_MINUTES when it is given none; verify_token
\* returns its claims at every time before exp and None at every time
\* after.
C22_ExpiryInstant ==
    (call.fn = "create_access_token" /\ call.data \in ClaimSets) =>
        LET ttl == IF call.expires_delta.some THEN call.expires_delta.val
                   ELSE ACCESS_TOKEN_EXPIRE_MINUTES
            exp == call.out.payload["exp"]
        IN  /\ exp = call.at + ttl
            /\ \A t \in 0..(MaxTime + ACCESS_TOKEN_EXPIRE_MINUTES + 1) :
                   /\ t < exp => verify_token(call.out, t).some
                   /\ t > exp => verify_token(call.out, t) = None

====
